---- MODULE Spec2Model ----
(***************************************************************************)
(* Model of the material-request parser (src/solution.py, src/app.py).     *)
(*                                                                         *)
(* Strings are sequences of one-character strings, so that lower(),        *)
(* strip(), str(), float(), int() and date parsing are computed on the     *)
(* characters and are not the identity.  A decoded JSON value is a record  *)
(* [t, n, s]: t is the Python type, n the numeric payload (floats are kept *)
(* in tenths), s the characters of a str.                                  *)
(***************************************************************************)
EXTENDS Integers, Sequences, FiniteSets, TLC

VARIABLES
  text,         \* parse_text: the request text
  max_retries,  \* parse_text: the retry limit
  attempt,      \* parse_text: the loop index
  calls,        \* number of model calls made so far
  pc,           \* "loop", "done", "propagated" (parse_text);
                \* "input", "coerced", "raised", "recoerced" (validate_and_fix)
  content,      \* parse_text: the local variable content
  result,       \* the record parse_text returned
  lastFail,     \* outcome of the latest attempt: "none", "ok" or the exception
  returned,     \* the latest model call returned text
  succeeded,    \* an attempt decoded and coerced its output
  noObject,     \* no attempt so far returned text that holds a JSON object
  data,         \* validate_and_fix: the argument
  fixed,        \* validate_and_fix(data)
  fixed2,       \* validate_and_fix(validate_and_fix(data))
  raw_out,      \* parse_text: the text the latest model call returned
  driver,       \* the batch driver: "solution" (process_batch), "app" (the
                \* upload loop of app.py) or "none"
  bpc,          \* the driver's position: "open", "nofile", "unit", "parsing",
                \* "save", "returned"; "off" outside a batch
  lines,        \* the lines of the input file
  inputs,       \* the driver's list of request texts
  idx,          \* the driver's loop index, from 1
  results,      \* the driver's list of {input, output} pairs
  output_file,  \* process_batch: what was written to the output file
  total_calls   \* number of model calls the driver has caused so far

vars == <<text, max_retries, attempt, calls, pc, content, result, lastFail,
          returned, succeeded, noObject, data, fixed, fixed2, raw_out,
          driver, bpc, lines, inputs, idx, results, output_file, total_calls>>

parseVars == <<text, max_retries, attempt, calls, content, result, lastFail,
               returned, succeeded, noObject, raw_out>>

coerceVars == <<data, fixed, fixed2>>

batchVars == <<driver, bpc, lines, inputs, idx, results, output_file, total_calls>>

(***************************************************************************)
(* Bounds                                                                  *)
(***************************************************************************)
MaxPad == 1

MaxRetries == 3

MaxRawLen == 2

(***************************************************************************)
(* Characters and strings                                                  *)
(***************************************************************************)
WS == {" ", "\t", "\n"}

Digits == <<"0", "1", "2", "3", "4", "5", "6", "7", "8", "9">>

UpperToLower ==
  [A |-> "a", B |-> "b", C |-> "c", D |-> "d", E |-> "e", F |-> "f", G |-> "g",
   H |-> "h", I |-> "i", J |-> "j", K |-> "k", L |-> "l", M |-> "m", N |-> "n",
   O |-> "o", P |-> "p", Q |-> "q", R |-> "r", S |-> "s", T |-> "t", U |-> "u",
   V |-> "v", W |-> "w", X |-> "x", Y |-> "y", Z |-> "z"]

LowerChar(c) == IF c \in DOMAIN UpperToLower THEN UpperToLower[c] ELSE c

\* str.lower()
Lower(s) == [i \in 1..Len(s) |-> LowerChar(s[i])]

RECURSIVE LStrip(_)
LStrip(s) == IF s # <<>> /\ Head(s) \in WS THEN LStrip(Tail(s)) ELSE s

RECURSIVE RStrip(_)
RStrip(s) ==
  IF s # <<>> /\ s[Len(s)] \in WS THEN RStrip(SubSeq(s, 1, Len(s) - 1)) ELSE s

\* str.strip()
Strip(s) == RStrip(LStrip(s))

\* c in s
Contains(s, c) == \E i \in 1..Len(s) : s[i] = c

IsDigit(c) == \E i \in 1..10 : Digits[i] = c

DigitVal(c) == (CHOOSE i \in 1..10 : Digits[i] = c) - 1

AllDigits(s) == \A i \in 1..Len(s) : IsDigit(s[i])

RECURSIVE DigitsVal(_)
DigitsVal(s) ==
  IF s = <<>> THEN 0
  ELSE 10 * DigitsVal(SubSeq(s, 1, Len(s) - 1)) + DigitVal(s[Len(s)])

RECURSIVE NatToChars(_)
NatToChars(n) ==
  IF n < 10 THEN <<Digits[n + 1]>>
  ELSE NatToChars(n \div 10) \o <<Digits[(n % 10) + 1]>>

IntToChars(n) == IF n < 0 THEN <<"-">> \o NatToChars(0 - n) ELSE NatToChars(n)

\* zero-padded decimal of width w, as strftime's %Y, %m, %d
RECURSIVE PadNat(_, _)
PadNat(n, w) ==
  IF w = 0 THEN <<>> ELSE PadNat(n \div 10, w - 1) \o <<Digits[(n % 10) + 1]>>

(***************************************************************************)
(* Decoded JSON values (Python objects)                                    *)
(***************************************************************************)
None == [t |-> "null", n |-> 0, s |-> <<>>]

VBool(b) == [t |-> "bool", n |-> IF b THEN 1 ELSE 0, s |-> <<>>]

VInt(n) == [t |-> "int", n |-> n, s |-> <<>>]

\* a finite float, in tenths
VFloat(tenths) == [t |-> "float", n |-> tenths, s |-> <<>>]

FloatInf == [t |-> "inf", n |-> 1, s |-> <<>>]

FloatNaN == [t |-> "nan", n |-> 0, s |-> <<>>]

VStr(s) == [t |-> "str", n |-> 0, s |-> s]

\* a list of n elements, each the integer 1
VList(n) == [t |-> "list", n |-> n, s |-> <<>>]

\* bool(v)
Truthy(v) ==
  CASE v.t = "null" -> FALSE
    [] v.t = "bool" -> v.n = 1
    [] v.t = "int" -> v.n # 0
    [] v.t = "float" -> v.n # 0
    [] v.t = "str" -> v.s # <<>>
    [] v.t = "list" -> v.n > 0
    [] OTHER -> TRUE

RECURSIVE ListBody(_)
ListBody(n) ==
  IF n = 0 THEN <<>>
  ELSE IF n = 1 THEN <<"1">>
  ELSE ListBody(n - 1) \o <<",", " ", "1">>

\* str(v)
PyStr(v) ==
  CASE v.t = "null" -> <<"N", "o", "n", "e">>
    [] v.t = "bool" -> IF v.n = 1 THEN <<"T", "r", "u", "e">>
                                  ELSE <<"F", "a", "l", "s", "e">>
    [] v.t = "int" -> IntToChars(v.n)
    [] v.t = "float" ->
         (IF v.n < 0 THEN <<"-">> ELSE <<>>)
           \o NatToChars((IF v.n < 0 THEN 0 - v.n ELSE v.n) \div 10)
           \o <<".">>
           \o NatToChars((IF v.n < 0 THEN 0 - v.n ELSE v.n) % 10)
    [] v.t = "inf" -> <<"i", "n", "f">>
    [] v.t = "nan" -> <<"n", "a", "n">>
    [] v.t = "str" -> v.s
    [] v.t = "list" -> <<"[">> \o ListBody(v.n) \o <<"]">>

(***************************************************************************)
(* float() and int()                                                       *)
(***************************************************************************)
W_inf == <<"i", "n", "f">>

W_infinity == <<"i", "n", "f", "i", "n", "i", "t", "y">>

W_nan == <<"n", "a", "n">>

\* position of the first "." of s, or 0
DotPos(s) ==
  IF Contains(s, ".") THEN CHOOSE i \in 1..Len(s) : s[i] = "." /\ \A j \in 1..(i - 1) : s[j] # "."
  ELSE 0

\* an unsigned decimal literal without exponent: digits, or digits "." digits
\* with a digit on at least one side; the value is exact in tenths for the
\* one-fractional-digit literals the inputs contain
DecimalOk(b) ==
  LET p == DotPos(b)
      ip == IF p = 0 THEN b ELSE SubSeq(b, 1, p - 1)
      fp == IF p = 0 THEN <<>> ELSE SubSeq(b, p + 1, Len(b))
  IN  /\ AllDigits(ip) /\ AllDigits(fp)
      /\ Len(ip) + Len(fp) > 0
      /\ Len(fp) <= 1

DecimalTenths(b) ==
  LET p == DotPos(b)
      ip == IF p = 0 THEN b ELSE SubSeq(b, 1, p - 1)
      fp == IF p = 0 THEN <<>> ELSE SubSeq(b, p + 1, Len(b))
  IN  10 * DigitsVal(ip) + DigitsVal(fp)

\* float(s): a finite float, FloatInf or FloatNaN, or ValueError; literals
\* with an exponent are outside the inputs
PyFloat(s) ==
  LET st == Strip(s)
      signed == st # <<>> /\ Head(st) \in {"+", "-"}
      neg == st # <<>> /\ Head(st) = "-"
      b == IF signed THEN Tail(st) ELSE st
  IN  IF Lower(b) \in {W_inf, W_infinity} THEN [exc |-> "none", val |-> FloatInf]
      ELSE IF Lower(b) = W_nan THEN [exc |-> "none", val |-> FloatNaN]
      ELSE IF DecimalOk(b)
        THEN [exc |-> "none",
              val |-> VFloat(IF neg THEN 0 - DecimalTenths(b) ELSE DecimalTenths(b))]
      ELSE [exc |-> "ValueError", val |-> None]

\* int(f) of a float: truncation toward zero
PyIntOfFloat(f) ==
  CASE f.t = "inf" -> [exc |-> "OverflowError", val |-> None]
    [] f.t = "nan" -> [exc |-> "ValueError", val |-> None]
    [] OTHER -> [exc |-> "none",
                 val |-> VInt(IF f.n < 0 THEN 0 - ((0 - f.n) \div 10) ELSE f.n \div 10)]

(***************************************************************************)
(* datetime.fromisoformat and strftime('%Y-%m-%d')                         *)
(***************************************************************************)
\* str.replace(a, b) for a one-character a
RECURSIVE Replace(_, _, _)
Replace(s, a, b) ==
  IF s = <<>> THEN <<>>
  ELSE (IF Head(s) = a THEN b ELSE <<Head(s)>>) \o Replace(Tail(s), a, b)

IsLeap(y) == (y % 4 = 0 /\ y % 100 # 0) \/ y % 400 = 0

DaysInMonth(y, m) ==
  IF m = 2 THEN (IF IsLeap(y) THEN 29 ELSE 28)
  ELSE IF m \in {4, 6, 9, 11} THEN 30 ELSE 31

\* two digits below lim
TwoDigits(s, lim) == Len(s) = 2 /\ AllDigits(s) /\ DigitsVal(s) < lim

\* HH, HH:MM or HH:MM:SS
ClockOk(c) ==
  \/ TwoDigits(c, 24)
  \/ Len(c) = 5 /\ TwoDigits(SubSeq(c, 1, 2), 24) /\ c[3] = ":"
       /\ TwoDigits(SubSeq(c, 4, 5), 60)
  \/ Len(c) = 8 /\ TwoDigits(SubSeq(c, 1, 2), 24) /\ c[3] = ":"
       /\ TwoDigits(SubSeq(c, 4, 5), 60) /\ c[6] = ":"
       /\ TwoDigits(SubSeq(c, 7, 8), 60)

\* position of the first "+" or "-" of s, or 0
SignPos(s) ==
  IF \E i \in 1..Len(s) : s[i] \in {"+", "-"}
    THEN CHOOSE i \in 1..Len(s) : s[i] \in {"+", "-"} /\ \A j \in 1..(i - 1) : s[j] \notin {"+", "-"}
  ELSE 0

\* the time part: a clock, optionally followed by a UTC offset +HH:MM
TimeOk(tm) ==
  LET p == SignPos(tm)
  IN  IF p = 0 THEN ClockOk(tm)
      ELSE /\ ClockOk(SubSeq(tm, 1, p - 1))
           /\ LET off == SubSeq(tm, p + 1, Len(tm))
              IN  Len(off) = 5 /\ TwoDigits(SubSeq(off, 1, 2), 24) /\ off[3] = ":"
                    /\ TwoDigits(SubSeq(off, 4, 5), 60)

\* datetime.fromisoformat(s): the calendar date, or ValueError, for the
\* extended format YYYY-MM-DD, optionally followed by one separator character
\* and a time with an optional UTC offset
FromIsoFormat(s) ==
  LET n == Len(s)
      y == DigitsVal(SubSeq(s, 1, 4))
      m == DigitsVal(SubSeq(s, 6, 7))
      d == DigitsVal(SubSeq(s, 9, 10))
  IN  IF /\ n >= 10
         /\ AllDigits(SubSeq(s, 1, 4)) /\ s[5] = "-"
         /\ AllDigits(SubSeq(s, 6, 7)) /\ s[8] = "-"
         /\ AllDigits(SubSeq(s, 9, 10))
         /\ y >= 1 /\ m \in 1..12 /\ d \in 1..DaysInMonth(y, m)
         /\ (n = 10 \/ (n >= 13 /\ TimeOk(SubSeq(s, 12, n))))
        THEN [exc |-> "none", y |-> y, m |-> m, d |-> d]
        ELSE [exc |-> "ValueError", y |-> 0, m |-> 0, d |-> 0]

\* parsed.strftime('%Y-%m-%d')
Strftime(dt) == PadNat(dt.y, 4) \o <<"-">> \o PadNat(dt.m, 2) \o <<"-">> \o PadNat(dt.d, 2)

(***************************************************************************)
(* The coercer: validate_and_fix, validate_date, create_fallback_response  *)
(***************************************************************************)
Fields == {"material_name", "quantity", "unit", "project_name", "location",
           "urgency", "deadline"}

StringFields == {"material_name", "unit", "project_name", "location"}

W_null == <<"n", "u", "l", "l">>

W_none == <<"n", "o", "n", "e">>

W_na == <<"n", "/", "a">>

W_low == <<"l", "o", "w">>

W_medium == <<"m", "e", "d", "i", "u", "m">>

W_high == <<"h", "i", "g", "h">>

NullWords == {W_null, W_none, W_na}

UrgencyWords == {W_low, W_medium, W_high}

EmptyDict == [k \in {} |-> None]

\* a decoded top-level JSON value: a dict, or anything else
Obj(d) == [kind |-> "dict", d |-> d, v |-> None]

NonObj(v) == [kind |-> "other", d |-> EmptyDict, v |-> v]

\* dict.get(k)
Get(d, k) == IF k \in DOMAIN d THEN d[k] ELSE None

\* dict.get(k, default)
GetDefault(d, k, default) == IF k \in DOMAIN d THEN d[k] ELSE default

ValidateDate(date_str) ==
  IF ~Truthy(date_str) THEN None
  ELSE IF Lower(PyStr(date_str)) \in (NullWords \cup {<<>>}) THEN None
  ELSE LET parsed == FromIsoFormat(Replace(Strip(PyStr(date_str)), "Z",
                                           <<"+", "0", "0", ":", "0", "0">>))
       IN  IF parsed.exc = "none" THEN VStr(Strftime(parsed)) ELSE None

\* the four string fields of validate_and_fix share this code
FixString(v) ==
  IF Truthy(v) /\ Strip(PyStr(v)) # <<>> /\ Lower(PyStr(v)) \notin NullWords
    THEN VStr(Strip(PyStr(v)))
    ELSE None

\* FixQuantity with every number converted through int(float(...))
FixQuantityTruncating(qty) ==
  IF qty = None THEN [exc |-> "none", val |-> None]
  ELSE LET f == PyFloat(PyStr(qty))
           r == IF f.exc # "none" THEN f ELSE PyIntOfFloat(f.val)
       IN  IF r.exc \in {"ValueError", "TypeError"}
             THEN [exc |-> "none", val |-> None]
             ELSE r

\* the quantity block of validate_and_fix; ValueError and TypeError are
\* caught, any other exception leaves validate_and_fix
FixQuantity(qty) ==
  IF qty = None THEN [exc |-> "none", val |-> None]
  ELSE LET qty_str == PyStr(qty)
           f == PyFloat(qty_str)
           r == IF f.exc # "none" THEN f
                ELSE IF Contains(qty_str, ".") THEN f
                ELSE PyIntOfFloat(f.val)
       IN  IF r.exc \in {"ValueError", "TypeError"}
             THEN [exc |-> "none", val |-> None]
             ELSE r

\* FixUrgency without the lower-casing
FixUrgencyCaseSensitive(d) ==
  LET urgency == Strip(PyStr(GetDefault(d, "urgency", VStr(W_low))))
  IN  IF urgency \in UrgencyWords THEN VStr(urgency) ELSE VStr(W_low)

FixUrgency(d) ==
  LET urgency == Strip(Lower(PyStr(GetDefault(d, "urgency", VStr(W_low)))))
  IN  IF urgency \in UrgencyWords THEN VStr(urgency) ELSE VStr(W_low)

NoRecord == [k \in {"none"} |-> None]

\* validate_and_fix that starts from a copy of its argument and fixes the
\* schema's fields in it
ValidateAndFixInPlace(x) ==
  IF x.kind # "dict" THEN [exc |-> "AttributeError", rec |-> NoRecord]
  ELSE LET q == FixQuantity(Get(x.d, "quantity"))
           out == [material_name |-> FixString(Get(x.d, "material_name")),
                   quantity |-> q.val,
                   unit |-> FixString(Get(x.d, "unit")),
                   project_name |-> FixString(Get(x.d, "project_name")),
                   location |-> FixString(Get(x.d, "location")),
                   urgency |-> FixUrgency(x.d),
                   deadline |-> ValidateDate(Get(x.d, "deadline"))]
       IN  IF q.exc # "none" THEN [exc |-> q.exc, rec |-> NoRecord]
           ELSE [exc |-> "none",
                 rec |-> [k \in DOMAIN x.d \cup Fields |->
                            IF k \in Fields THEN out[k] ELSE x.d[k]]]

\* validate_and_fix(data): the record, or the exception that leaves it
ValidateAndFix(x) ==
  IF x.kind # "dict" THEN [exc |-> "AttributeError", rec |-> NoRecord]
  ELSE LET q == FixQuantity(Get(x.d, "quantity"))
       IN  IF q.exc # "none" THEN [exc |-> q.exc, rec |-> NoRecord]
           ELSE [exc |-> "none",
                 rec |-> [material_name |-> FixString(Get(x.d, "material_name")),
                          quantity |-> q.val,
                          unit |-> FixString(Get(x.d, "unit")),
                          project_name |-> FixString(Get(x.d, "project_name")),
                          location |-> FixString(Get(x.d, "location")),
                          urgency |-> FixUrgency(x.d),
                          deadline |-> ValidateDate(Get(x.d, "deadline"))]]

TruncLen == 50

Take(s, n) == SubSeq(s, 1, IF Len(s) < n THEN Len(s) ELSE n)

W_parse_failed == <<"P", "a", "r", "s", "e", " ", "f", "a", "i", "l", "e", "d", ":", " ">>

\* create_fallback_response without the request text in the diagnostic
CreateFallbackResponseNoText(txt) ==
  [material_name |-> VStr(W_parse_failed \o <<".", ".", ".">>),
   quantity |-> None,
   unit |-> None,
   project_name |-> None,
   location |-> None,
   urgency |-> VStr(W_low),
   deadline |-> None]

CreateFallbackResponse(txt) ==
  [material_name |-> VStr(W_parse_failed \o Take(txt, TruncLen) \o <<".", ".", ".">>),
   quantity |-> None,
   unit |-> None,
   project_name |-> None,
   location |-> None,
   urgency |-> VStr(W_low),
   deadline |-> None]

(***************************************************************************)
(* Inputs of the coercer                                                   *)
(***************************************************************************)
C_empty == <<>>

C_NULL == <<"N", "U", "L", "L">>

C_None == <<"N", "o", "n", "e">>

C_NA == <<"N", "/", "A">>

C_cement == <<"c", "e", "m", "e", "n", "t">>

C_HIGH == <<"H", "I", "G", "H">>

C_Medium == <<"M", "e", "d", "i", "u", "m">>

C_urgent == <<"u", "r", "g", "e", "n", "t">>

C_5 == <<"5">>

C_2p5 == <<"2", ".", "5">>

C_neg == <<"-", "7">>

C_Inf == <<"I", "n", "f">>

C_date == <<"2", "0", "2", "5", "-", "0", "3", "-", "1", "5">>

C_datetime == <<"2", "0", "2", "5", "-", "0", "3", "-", "1", "5", "T", "1", "0", ":", "0", "0", ":", "0", "0", "Z">>

C_baddate == <<"2", "0", "2", "5", "-", "0", "2", "-", "3", "0">>

C_words == <<"1", "5", " ", "M", "a", "r", "c", "h">>

Cores == {C_empty, C_NULL, C_None, C_NA, C_cement, C_HIGH, C_Medium, C_urgent, C_5, C_2p5, C_neg, C_Inf, C_date, C_datetime, C_baddate, C_words, W_null, W_na, W_low, W_high, W_nan}

Spaces(n) == [i \in 1..n |-> " "]

\* every core word with up to MaxPad blanks on either side
StrValues == {VStr(Spaces(l) \o c \o Spaces(r)) : l \in 0..MaxPad, r \in 0..MaxPad, c \in Cores}

OtherValues == {None, VBool(TRUE), VBool(FALSE), VInt(0), VInt(5), VFloat(25), VFloat(30),
                VFloat(0 - 5), FloatInf, FloatNaN, VList(0), VList(1)}

Values == StrValues \cup OtherValues

InputKeys == Fields \cup {"notes"}

ValidDict ==
  [material_name |-> VStr(C_cement), quantity |-> VInt(5), unit |-> VStr(<<"b", "a", "g", "s">>),
   project_name |-> None, location |-> VStr(<<"S", "i", "t", "e", " ", "A">>),
   urgency |-> VStr(W_high), deadline |-> VStr(C_date)]

MessyDict ==
  [material_name |-> VStr(<<" ">> \o C_cement), quantity |-> VStr(C_2p5), unit |-> VStr(C_NA),
   project_name |-> VStr(<<" ">> \o W_null \o <<" ">>), location |-> VInt(0),
   urgency |-> VStr(C_urgent), deadline |-> VStr(C_datetime), notes |-> VStr(C_cement)]

BaseDicts == {EmptyDict, ValidDict, MessyDict}

WithKey(d, k, v) == [x \in DOMAIN d \cup {k} |-> IF x = k THEN v ELSE d[x]]

WithoutKey(d, k) == [x \in DOMAIN d \ {k} |-> d[x]]

\* a base mapping with one key set to any value or removed, and the
\* non-mapping JSON values
CoerceInputs ==
  {Obj(WithKey(b, k, v)) : b \in BaseDicts, k \in InputKeys, v \in Values}
    \cup {Obj(WithoutKey(b, k)) : b \in BaseDicts, k \in InputKeys}
    \cup {NonObj(v) : v \in {None, VBool(TRUE), VInt(5), VFloat(25), VStr(C_cement), VList(0), VList(1)}}

NotRun == [exc |-> "notrun", rec |-> NoRecord]

\* the output file before process_batch has written it
NotWritten == [written |-> FALSE, pairs |-> <<>>]

\* no batch driver is running
NoBatch ==
  /\ driver = "none" /\ bpc = "off"
  /\ lines = <<>> /\ inputs = <<>> /\ idx = 0
  /\ results = <<>> /\ output_file = NotWritten /\ total_calls = 0

InitCoerce ==
  /\ data \in CoerceInputs
  /\ pc = "input"
  /\ fixed = NotRun /\ fixed2 = NotRun
  /\ text = <<>> /\ max_retries = 0 /\ attempt = 0 /\ calls = 0
  /\ content = <<>> /\ result = NoRecord /\ lastFail = "none" /\ succeeded = FALSE
  /\ returned = FALSE /\ noObject = TRUE /\ raw_out = <<>>
  /\ NoBatch

\* fixed = validate_and_fix(data)
Coerce ==
  /\ pc = "input"
  /\ fixed' = ValidateAndFix(data)
  /\ pc' = IF fixed'.exc = "none" THEN "coerced" ELSE "raised"
  /\ UNCHANGED <<data, fixed2, parseVars, batchVars>>

\* the record, re-serialized to a plain mapping, is coerced again
Recoerce ==
  /\ pc = "coerced"
  /\ fixed2' = ValidateAndFix(Obj(fixed.rec))
  /\ pc' = "recoerced"
  /\ UNCHANGED <<data, fixed, parseVars, batchVars>>

NextCoerce == Coerce \/ Recoerce

(***************************************************************************)
(* Model output.  A raw model output is a sequence of lexemes: the JSON    *)
(* punctuation, whitespace, "fence" (the three backticks of a markdown     *)
(* fence), its language tags "json" and "JSON", a word of prose "w", the   *)
(* number literal "5", and member lexemes, each standing for one           *)
(* "key": value  pair of an object.                                        *)
(***************************************************************************)
Members ==
  [mName  |-> [k |-> "material_name", v |-> VStr(C_cement)],
   mQty   |-> [k |-> "quantity", v |-> VInt(5)],
   mUrg   |-> [k |-> "urgency", v |-> VStr(C_HIGH)],
   mInf   |-> [k |-> "quantity", v |-> FloatInf],
   mNA    |-> [k |-> "unit", v |-> VStr(<<" ">> \o C_NA)],
   mNotes |-> [k |-> "notes", v |-> VStr(C_cement)]]

\* the first position at or after i that holds no whitespace, or Len(s) + 1
RECURSIVE SkipWS(_, _)
SkipWS(s, i) == IF i <= Len(s) /\ s[i] \in WS THEN SkipWS(s, i + 1) ELSE i

\* ^ under re.MULTILINE
AtLineStart(s, i) == i = 1 \/ s[i - 1] = "\n"

\* re.sub of a fence pat at a line start and the whitespace after it, with
\* re.MULTILINE, scanning from position i
RECURSIVE SubLead(_, _, _)
SubLead(s, i, pat) ==
  IF i > Len(s) THEN <<>>
  ELSE IF /\ AtLineStart(s, i)
          /\ i + Len(pat) - 1 <= Len(s)
          /\ SubSeq(s, i, i + Len(pat) - 1) = pat
    THEN SubLead(s, SkipWS(s, i + Len(pat)), pat)
    ELSE <<s[i]>> \o SubLead(s, i + 1, pat)

\* re.sub of whitespace and a fence at a line end, with re.MULTILINE, scanning
\* from position i
RECURSIVE SubTrail(_, _)
SubTrail(s, i) ==
  IF i > Len(s) THEN <<>>
  ELSE LET k == SkipWS(s, i)
       IN  IF k <= Len(s) /\ s[k] = "fence" /\ (k = Len(s) \/ s[k + 1] = "\n")
             THEN SubTrail(s, k + 1)
             ELSE <<s[i]>> \o SubTrail(s, i + 1)

CleanJsonResponse(c) ==
  Strip(SubTrail(SubLead(SubLead(c, 1, <<"fence", "json">>), 1, <<"fence">>), 1))

(***************************************************************************)
(* json.loads on lexemes                                                   *)
(***************************************************************************)
JsonFail == [ok |-> FALSE, next |-> 0, val |-> NonObj(None)]

RECURSIVE ParseValue(_, _)
RECURSIVE ParseMembers(_, _, _)
RECURSIVE ParseElems(_, _, _)
\* one JSON value starting at ts[i]
ParseValue(ts, i) ==
  IF i > Len(ts) THEN JsonFail
  ELSE IF ts[i] = "5" THEN [ok |-> TRUE, next |-> i + 1, val |-> NonObj(VInt(5))]
  ELSE IF ts[i] = "{" THEN
    (IF i + 1 <= Len(ts) /\ ts[i + 1] = "}"
       THEN [ok |-> TRUE, next |-> i + 2, val |-> Obj(EmptyDict)]
       ELSE ParseMembers(ts, i + 1, EmptyDict))
  ELSE IF ts[i] = "[" THEN
    (IF i + 1 <= Len(ts) /\ ts[i + 1] = "]"
       THEN [ok |-> TRUE, next |-> i + 2, val |-> NonObj(VList(0))]
       ELSE ParseElems(ts, i + 1, 0))
  ELSE JsonFail

\* the members of an object after "{" or ","; a repeated key takes the last value
ParseMembers(ts, i, d) ==
  IF i <= Len(ts) /\ ts[i] \in DOMAIN Members
    THEN LET d2 == [x \in DOMAIN d \cup {Members[ts[i]].k} |->
                      IF x = Members[ts[i]].k THEN Members[ts[i]].v ELSE d[x]]
         IN  IF i + 1 <= Len(ts) /\ ts[i + 1] = "," THEN ParseMembers(ts, i + 2, d2)
             ELSE IF i + 1 <= Len(ts) /\ ts[i + 1] = "}"
               THEN [ok |-> TRUE, next |-> i + 2, val |-> Obj(d2)]
             ELSE JsonFail
    ELSE JsonFail

\* the elements of an array after "[" or ","
ParseElems(ts, i, n) ==
  LET e == ParseValue(ts, i)
  IN  IF ~e.ok THEN JsonFail
      ELSE IF e.next <= Len(ts) /\ ts[e.next] = "," THEN ParseElems(ts, e.next + 1, n + 1)
      ELSE IF e.next <= Len(ts) /\ ts[e.next] = "]"
        THEN [ok |-> TRUE, next |-> e.next + 1, val |-> NonObj(VList(n + 1))]
      ELSE JsonFail

NotWS(c) == c \notin WS

\* json.loads(c): the whole text must be one JSON value
JsonLoads(c) ==
  LET ts == SelectSeq(c, NotWS)
      r == ParseValue(ts, 1)
  IN  IF r.ok /\ r.next = Len(ts) + 1
        THEN [exc |-> "none", val |-> r.val]
        ELSE [exc |-> "JSONDecodeError", val |-> NonObj(None)]

(***************************************************************************)
(* emergency_json_extraction                                               *)
(***************************************************************************)
\* the first position at or after i that holds a brace, or Len(s) + 1
RECURSIVE NextBrace(_, _)
NextBrace(s, i) ==
  IF i <= Len(s) /\ s[i] \notin {"{", "}"} THEN NextBrace(s, i + 1) ELSE i

\* the repeated inner-object group and the closing brace of the pattern, from
\* the brace at p: the end of the match, or 0
RECURSIVE GroupLoop(_, _)
GroupLoop(s, p) ==
  IF p > Len(s) THEN 0
  ELSE IF s[p] = "}" THEN p
  ELSE LET q == NextBrace(s, p + 1)
       IN  IF q <= Len(s) /\ s[q] = "}" THEN GroupLoop(s, NextBrace(s, q + 1)) ELSE 0

\* the pattern of emergency_json_extraction (an object whose members may hold
\* objects one level deep) matched at i: the end of the match, or 0
MatchAt(s, i) == IF s[i] = "{" THEN GroupLoop(s, NextBrace(s, i + 1)) ELSE 0

\* re.search: the leftmost match, as <<start, end>>, or <<0, 0>>
RegexSearch(s) ==
  IF \E i \in 1..Len(s) : MatchAt(s, i) # 0
    THEN LET i == CHOOSE i \in 1..Len(s) :
                    MatchAt(s, i) # 0 /\ \A j \in 1..(i - 1) : MatchAt(s, j) = 0
         IN  <<i, MatchAt(s, i)>>
    ELSE <<0, 0>>

EmergencyJsonExtraction(c, original_text) ==
  LET m == RegexSearch(c)
      parsed == JsonLoads(SubSeq(c, m[1], m[2]))
      validated == ValidateAndFix(parsed.val)
  IN  IF m[1] # 0 /\ parsed.exc = "none" /\ validated.exc = "none"
        THEN validated.rec
        ELSE CreateFallbackResponse(original_text)

(***************************************************************************)
(* parse_text                                                              *)
(***************************************************************************)
GenLexemes == {"{", "}", "mName", "w"}

\* every sequence of at most MaxRawLen lexemes
GenOutputs == UNION {[1..n -> GenLexemes] : n \in 0..MaxRawLen}

FixedOutputs ==
  {<<"{", "mName", ",", " ", "mQty", ",", " ", "mUrg", "}">>,
   <<"{", "mName", "}", " ", "w">>,
   <<"{", "mName", ",", "mUrg", "}", "\n", "w", " ", "w">>,
   <<"fence", "json", "\n", "{", "mName", "}", "\n", "fence">>,
   <<"fence", "JSON", "\n", "{", "mName", "}", "\n", "fence">>,
   <<"fence", "\n", "{", "mName", "}", "\n", "fence">>,
   <<"fence", "json", "\n", "{", "mName", "}", "\n", "fence", "\n", "w">>,
   <<"[", "{", "mName", "}", ",", "{", "mUrg", "}", "]">>,
   <<"[", "{", "mName", "}", "]", " ", "w">>,
   <<"w", " ", "{", "mName", "}">>,
   <<"{", "mInf", "}">>,
   <<"{", "mInf", "}", " ", "w">>,
   <<"{", "mNA", ",", "mNotes", "}">>,
   <<"{", "mName", "}", "{", "mUrg", "}">>,
   <<"{", "w", "{", "mName", "}", "}">>,
   <<"{", "mQty", ",", "mInf", ",", "mQty", "}">>,
   <<"[", "]">>,
   <<"[", "5", ",", "5", "]">>,
   <<" ", "5", "\n">>,
   <<" ", "\n">>}

RawOutputs == GenOutputs \cup FixedOutputs

\* a request text of n characters; the characters after the first TruncLen differ
MkText(n) == [i \in 1..n |-> IF i > TruncLen THEN "z" ELSE IF i % 2 = 0 THEN "a" ELSE "b"]

Texts == {MkText(n) : n \in {0, 2, TruncLen, TruncLen + 3}}

\* some substring of c is a well-formed JSON object
HoldsJsonObject(c) ==
  \E i \in 1..Len(c) : \E j \in i..Len(c) :
    LET sub == JsonLoads(SubSeq(c, i, j))
    IN  sub.exc = "none" /\ sub.val.kind = "dict"

InitParse ==
  /\ text \in Texts
  /\ max_retries \in (0 - 1)..MaxRetries
  /\ attempt = 0 /\ calls = 0
  /\ pc = "loop"
  /\ content = <<>> /\ result = NoRecord /\ lastFail = "none" /\ succeeded = FALSE
  /\ returned = FALSE /\ noObject = TRUE /\ raw_out = <<>>
  /\ data = NonObj(None) /\ fixed = NotRun /\ fixed2 = NotRun
  /\ NoBatch

\* the exceptions of the model that derive from Exception
ExceptionClasses == {"JSONDecodeError", "AttributeError", "OverflowError", "ValueError",
                     "TypeError", "ModelCallError"}

\* the body of an except branch of parse_text: on the last attempt return
\* rec, otherwise go on to the next attempt
Handle(rec) ==
  IF attempt = max_retries - 1
    THEN /\ result' = rec
         /\ pc' = "done"
         /\ attempt' = attempt
    ELSE /\ result' = result
         /\ pc' = pc
         /\ attempt' = attempt + 1

\* Except with a second clause that catches ValueError and TypeError only
ExceptNarrow(exc, c) ==
  /\ lastFail' = exc
  /\ succeeded' = succeeded
  /\ IF exc = "JSONDecodeError" THEN Handle(EmergencyJsonExtraction(c, text))
     ELSE IF exc \in {"ValueError", "TypeError"} THEN Handle(CreateFallbackResponse(text))
     ELSE /\ pc' = "propagated"
          /\ result' = result
          /\ attempt' = attempt

\* Except with the emergency extraction in the second clause too
ExceptAlwaysExtract(exc, c) ==
  /\ lastFail' = exc
  /\ succeeded' = succeeded
  /\ IF exc \in ExceptionClasses THEN Handle(EmergencyJsonExtraction(c, text))
     ELSE /\ pc' = "propagated"
          /\ result' = result
          /\ attempt' = attempt

\* the except clauses of parse_text, in order, for exception exc raised in the
\* try block while content holds c
Except(exc, c) ==
  /\ lastFail' = exc
  /\ succeeded' = succeeded
  /\ IF exc = "JSONDecodeError" THEN Handle(EmergencyJsonExtraction(c, text))
     ELSE IF exc \in ExceptionClasses THEN Handle(CreateFallbackResponse(text))
     ELSE /\ pc' = "propagated"
          /\ result' = result
          /\ attempt' = attempt

\* AttemptReturns without the return after a successful validate_and_fix
AttemptReturnsNoReturn(raw) ==
  /\ pc = "loop"
  /\ attempt < max_retries
  /\ calls' = calls + 1
  /\ returned' = TRUE
  /\ noObject' = (noObject /\ ~HoldsJsonObject(raw)
                    /\ ~HoldsJsonObject(CleanJsonResponse(Strip(raw))))
  /\ content' = CleanJsonResponse(Strip(raw))
  /\ raw_out' = raw
  /\ LET parsed == JsonLoads(content')
         validated == ValidateAndFix(parsed.val)
     IN  IF parsed.exc # "none" THEN Except(parsed.exc, content')
         ELSE IF validated.exc # "none" THEN Except(validated.exc, content')
         ELSE /\ lastFail' = "ok"
              /\ succeeded' = TRUE
              /\ Handle(validated.rec)
  /\ UNCHANGED <<text, max_retries, coerceVars, batchVars>>

\* one attempt in which the model call returns raw
AttemptReturns(raw) ==
  /\ pc = "loop"
  /\ attempt < max_retries
  /\ calls' = calls + 1
  /\ returned' = TRUE
  /\ noObject' = (noObject /\ ~HoldsJsonObject(raw)
                    /\ ~HoldsJsonObject(CleanJsonResponse(Strip(raw))))
  /\ content' = CleanJsonResponse(Strip(raw))
  /\ raw_out' = raw
  /\ LET parsed == JsonLoads(content')
         validated == ValidateAndFix(parsed.val)
     IN  IF parsed.exc # "none" THEN Except(parsed.exc, content')
         ELSE IF validated.exc # "none" THEN Except(validated.exc, content')
         ELSE /\ result' = validated.rec
              /\ pc' = "done"
              /\ lastFail' = "ok"
              /\ succeeded' = TRUE
              /\ attempt' = attempt
  /\ UNCHANGED <<text, max_retries, coerceVars, batchVars>>

\* what the model call, or reading its response, raises: the collaborator's
\* own error, or AttributeError when the response carries no content; both
\* derive from Exception and neither is a JSONDecodeError
CallErrors == {"ModelCallError", "AttributeError"}

\* one attempt in which the model call raises exc, or returns no content
AttemptRaises(exc) ==
  /\ pc = "loop"
  /\ attempt < max_retries
  /\ calls' = calls + 1
  /\ returned' = FALSE
  /\ noObject' = noObject
  /\ content' = content
  /\ Except(exc, content)
  /\ UNCHANGED <<text, max_retries, raw_out, coerceVars, batchVars>>

\* the loop ends without a return: the fallback after the loop
LoopExhausted ==
  /\ pc = "loop"
  /\ attempt >= max_retries
  /\ result' = CreateFallbackResponse(text)
  /\ pc' = "done"
  /\ UNCHANGED <<text, max_retries, attempt, calls, content, lastFail, returned,
                 succeeded, noObject, raw_out, coerceVars, batchVars>>

NextParse ==
  \/ \E raw \in RawOutputs : AttemptReturns(raw)
  \/ \E exc \in CallErrors : AttemptRaises(exc)
  \/ LoopExhausted

Init == InitParse \/ InitCoerce

Next == NextParse \/ NextCoerce

Spec == Init /\ [][Next]_vars

(***************************************************************************)
(* The coercer and the cleaner of app.py                                   *)
(***************************************************************************)
\* the quantity block of app.py's validate_and_fix: its bare except catches
\* every exception
FixQuantityApp(qty) ==
  IF qty = None THEN None
  ELSE LET qty_str == PyStr(qty)
           f == PyFloat(qty_str)
           r == IF f.exc # "none" THEN f
                ELSE IF Contains(qty_str, ".") THEN f
                ELSE PyIntOfFloat(f.val)
       IN  IF r.exc # "none" THEN None ELSE r.val

\* app.py's validate_and_fix(data)
ValidateAndFixApp(x) ==
  IF x.kind # "dict" THEN [exc |-> "AttributeError", rec |-> NoRecord]
  ELSE [exc |-> "none",
        rec |-> [material_name |-> FixString(Get(x.d, "material_name")),
                 quantity |-> FixQuantityApp(Get(x.d, "quantity")),
                 unit |-> FixString(Get(x.d, "unit")),
                 project_name |-> FixString(Get(x.d, "project_name")),
                 location |-> FixString(Get(x.d, "location")),
                 urgency |-> FixUrgency(x.d),
                 deadline |-> ValidateDate(Get(x.d, "deadline"))]]

\* re.sub of a fence pat at the start of the text and the whitespace after it;
\* without re.MULTILINE the pattern matches at the start only
SubLeadOnce(s, pat) ==
  IF Len(pat) <= Len(s) /\ SubSeq(s, 1, Len(pat)) = pat
    THEN SubSeq(s, SkipWS(s, Len(pat) + 1), Len(s))
    ELSE s

\* the start of the run of whitespace that ends just before position k
RECURSIVE RunStart(_, _)
RunStart(s, k) == IF k > 1 /\ s[k - 1] \in WS THEN RunStart(s, k - 1) ELSE k

\* re.sub of whitespace and a fence at the end of the text; without
\* re.MULTILINE the end is the end of the text or the newline that ends it
SubTrailOnce(s) ==
  LET n == Len(s)
      k == IF n >= 1 /\ s[n] = "fence" THEN n
           ELSE IF n >= 2 /\ s[n] = "\n" /\ s[n - 1] = "fence" THEN n - 1
           ELSE 0
  IN  IF k = 0 THEN s
      ELSE SubSeq(s, 1, RunStart(s, k) - 1) \o SubSeq(s, k + 1, n)

\* app.py's clean_json_response(content)
CleanJsonResponseApp(c) ==
  Strip(SubTrailOnce(SubLeadOnce(SubLeadOnce(c, <<"fence", "json">>), <<"fence">>)))

W_json_parsing_failed ==
  <<"J", "S", "O", "N", " ", "p", "a", "r", "s", "i", "n", "g", " ",
    "f", "a", "i", "l", "e", "d", ":", " ">>

W_error == <<"E", "r", "r", "o", "r", ":", " ">>

\* app.py's parse_text when the model call returns raw: the pair (result,
\* error), NoRecord standing for a result of None; the text of the exception,
\* which ends the error message, is one element that names the exception
AppParseText(raw) ==
  LET c == CleanJsonResponseApp(Strip(raw))
      parsed == JsonLoads(c)
      validated == ValidateAndFixApp(parsed.val)
  IN  IF parsed.exc # "none"
        THEN [result |-> NoRecord,
              error |-> VStr(W_json_parsing_failed \o <<parsed.exc>>)]
      ELSE IF validated.exc # "none"
        THEN [result |-> NoRecord, error |-> VStr(W_error \o <<validated.exc>>)]
      ELSE [result |-> validated.rec, error |-> None]

\* app.py's parse_text when the model call raises
AppParseTextRaises(exc) == [result |-> NoRecord, error |-> VStr(W_error \o <<exc>>)]

(***************************************************************************)
(* The batch drivers: process_batch and the upload loop of app.py          *)
(***************************************************************************)
MaxLines == 3

\* the default of parse_text's max_retries
DefaultRetries == 3

\* lines of an input file: a blank one, a request between blanks, a request
BatchLines == {<<" ">>, <<" ", "a", "b", "\t">>, <<"c">>}

\* every input file of at most MaxLines lines
BatchFiles == UNION {[1..n -> BatchLines] : n \in 0..MaxLines}

\* what the model returns to a call made for a unit of a batch
BatchOutputs ==
  {<<"{", "mName", "}">>,
   <<"w">>,
   <<"{", "mUrg", "}", " ", "w">>,
   <<"{", "mInf", "}">>}

\* the list comprehension without its condition
RECURSIVE StripLinesUnfiltered(_)
StripLinesUnfiltered(ls) ==
  IF ls = <<>> THEN <<>>
  ELSE <<Strip(Head(ls))>> \o StripLinesUnfiltered(Tail(ls))

\* [line.strip() for line in f if line.strip()]
RECURSIVE StripLines(_)
StripLines(ls) ==
  IF ls = <<>> THEN <<>>
  ELSE (IF Strip(Head(ls)) # <<>> THEN <<Strip(Head(ls))>> ELSE <<>>)
         \o StripLines(Tail(ls))

\* no call of parse_text has been made
ParseIdle ==
  /\ text = <<>> /\ max_retries = 0 /\ attempt = 0 /\ calls = 0
  /\ pc = "idle"
  /\ content = <<>> /\ result = NoRecord /\ lastFail = "none" /\ succeeded = FALSE
  /\ returned = FALSE /\ noObject = TRUE /\ raw_out = <<>>

InitBatch ==
  /\ driver \in {"solution", "app"}
  /\ bpc \in (IF driver = "solution" THEN {"open", "nofile"} ELSE {"open"})
  /\ lines \in (IF bpc = "nofile" THEN {<<>>} ELSE BatchFiles)
  /\ inputs = <<>> /\ idx = 0
  /\ results = <<>> /\ output_file = NotWritten /\ total_calls = 0
  /\ ParseIdle
  /\ data = NonObj(None) /\ fixed = NotRun /\ fixed2 = NotRun

\* process_batch: there is no input file, the empty list is returned
FileNotFound ==
  /\ driver = "solution"
  /\ bpc = "nofile"
  /\ bpc' = "returned"
  /\ UNCHANGED <<driver, lines, inputs, idx, results, output_file, total_calls,
                 parseVars, pc, coerceVars>>

\* both drivers: the lines are stripped and the blank ones dropped
ReadInputs ==
  /\ bpc = "open"
  /\ inputs' = StripLines(lines)
  /\ idx' = 1
  /\ bpc' = "unit"
  /\ UNCHANGED <<driver, lines, results, output_file, total_calls,
                 parseVars, pc, coerceVars>>

\* process_batch: parse_text(text) is called for the next unit
CallParseText ==
  /\ driver = "solution"
  /\ bpc = "unit"
  /\ idx <= Len(inputs)
  /\ text' = inputs[idx]
  /\ max_retries' = DefaultRetries
  /\ attempt' = 0 /\ calls' = 0
  /\ pc' = "loop"
  /\ content' = <<>> /\ result' = NoRecord /\ lastFail' = "none"
  /\ succeeded' = FALSE /\ returned' = FALSE /\ noObject' = TRUE /\ raw_out' = <<>>
  /\ bpc' = "parsing"
  /\ UNCHANGED <<driver, lines, inputs, idx, results, output_file, total_calls,
                 coerceVars>>

\* AppendResult with the fallback record of a failed unit built from the
\* first unit's text
AppendResultFirstText ==
  /\ driver = "solution"
  /\ bpc = "parsing"
  /\ pc \in {"done", "propagated"}
  /\ results' = Append(results,
                       [input |-> text,
                        output |-> IF pc = "done" /\ result # CreateFallbackResponse(text)
                                     THEN result
                                     ELSE CreateFallbackResponse(inputs[1])])
  /\ idx' = idx + 1
  /\ total_calls' = total_calls + calls
  /\ bpc' = "unit"
  /\ UNCHANGED <<driver, lines, inputs, output_file, parseVars, pc, coerceVars>>

\* process_batch: parse_text has returned, or has raised, and the pair of the
\* unit is appended; the preview that follows reads fields the record has
AppendResult ==
  /\ driver = "solution"
  /\ bpc = "parsing"
  /\ pc \in {"done", "propagated"}
  /\ results' = Append(results,
                       [input |-> text,
                        output |-> IF pc = "done" THEN result
                                   ELSE CreateFallbackResponse(text)])
  /\ idx' = idx + 1
  /\ total_calls' = total_calls + calls
  /\ bpc' = "unit"
  /\ UNCHANGED <<driver, lines, inputs, output_file, parseVars, pc, coerceVars>>

\* process_batch: the results are written to the output file, or writing
\* fails and the failure is reported; the list is returned either way
SaveResults(ok) ==
  /\ driver = "solution"
  /\ bpc = "unit"
  /\ idx > Len(inputs)
  /\ output_file' = IF ok THEN [written |-> TRUE, pairs |-> results] ELSE NotWritten
  /\ bpc' = "returned"
  /\ UNCHANGED <<driver, lines, inputs, idx, results, total_calls,
                 parseVars, pc, coerceVars>>

\* the pair the upload loop appends for the (result, error) of parse_text
AppPair(line, r) ==
  [input |-> line,
   output |-> IF r.result # NoRecord THEN r.result ELSE [error |-> r.error]]

\* app.py: one turn of the upload loop, the model call returning raw
AppUnit(raw) ==
  /\ driver = "app"
  /\ bpc = "unit"
  /\ idx <= Len(inputs)
  /\ results' = Append(results, AppPair(inputs[idx], AppParseText(raw)))
  /\ idx' = idx + 1
  /\ total_calls' = total_calls + 1
  /\ UNCHANGED <<driver, bpc, lines, inputs, output_file, parseVars, pc, coerceVars>>

\* app.py: one turn of the upload loop, the model call raising exc
AppUnitRaises(exc) ==
  /\ driver = "app"
  /\ bpc = "unit"
  /\ idx <= Len(inputs)
  /\ results' = Append(results, AppPair(inputs[idx], AppParseTextRaises(exc)))
  /\ idx' = idx + 1
  /\ total_calls' = total_calls + 1
  /\ UNCHANGED <<driver, bpc, lines, inputs, output_file, parseVars, pc, coerceVars>>

\* app.py: the results are kept in the session state
AppStore ==
  /\ driver = "app"
  /\ bpc = "unit"
  /\ idx > Len(inputs)
  /\ bpc' = "returned"
  /\ UNCHANGED <<driver, lines, inputs, idx, results, output_file, total_calls,
                 parseVars, pc, coerceVars>>

NextBatch ==
  \/ FileNotFound
  \/ ReadInputs
  \/ CallParseText
  \/ \E raw \in BatchOutputs : AttemptReturns(raw)
  \/ \E exc \in CallErrors : AttemptRaises(exc)
  \/ AppendResult
  \/ \E ok \in BOOLEAN : SaveResults(ok)
  \/ \E raw \in BatchOutputs : AppUnit(raw)
  \/ AppUnitRaises("ModelCallError")
  \/ AppStore

BatchSpec == InitBatch /\ [][NextBatch]_vars

(***************************************************************************)
(* Properties                                                              *)
(***************************************************************************)
Absent(r, fs) == \A f \in fs : r[f] = None

UrgencyValues == {VStr(W_low), VStr(W_medium), VStr(W_high)}

\* a occurs in s as a contiguous block
Infix(a, s) == \E k \in 0..(Len(s) - Len(a)) : SubSeq(s, k + 1, k + Len(a)) = a

FirstChars(s, n) == [i \in 1..(IF Len(s) < n THEN Len(s) ELSE n) |-> s[i]]

C2_BoundedCalls ==
  /\ [](calls <= (IF max_retries > 0 THEN max_retries ELSE 0))
  /\ [][calls' # calls =>
          /\ calls' = calls + 1
          /\ ~succeeded
          /\ (calls = 0 \/ lastFail \in ExceptionClasses)]_vars

\* the last permitted attempt succeeded after failed ones
C2_Witness == pc = "done" /\ succeeded /\ calls = max_retries /\ calls >= 2

PrefixDecode(c) == ParseValue(SelectSeq(c, NotWS), 1)

\* c starts with one complete JSON object and goes on after it
ObjectThenTrailing(c) ==
  /\ PrefixDecode(c).ok
  /\ PrefixDecode(c).val.kind = "dict"
  /\ PrefixDecode(c).next <= Len(SelectSeq(c, NotWS))

\* C4: an attempt whose cleaned output is one complete JSON object followed
\* by trailing characters ends parse_text on that attempt with the record
\* coerced from that object.
C4_TrailingDataAccepted ==
  (returned /\ ObjectThenTrailing(content)) =>
    /\ pc = "done"
    /\ ValidateAndFix(PrefixDecode(content).val).exc = "none" =>
         result = ValidateAndFix(PrefixDecode(content).val).rec

\* C5: validate_and_fix never raises, and for a value that is not an object
\* it returns the record with urgency low and every other field absent.
C5_CoercerTotal ==
  /\ pc # "raised"
  /\ (pc \in {"coerced", "recoerced"} /\ data.kind # "dict") =>
       /\ fixed.rec.urgency = VStr(W_low)
       /\ Absent(fixed.rec, Fields \ {"urgency"})

\* C6: a record returned by validate_and_fix, create_fallback_response or
\* parse_text has exactly the fields of the schema, whatever keys the input
\* has.
C6_ExactFieldSet ==
  /\ pc = "done" => DOMAIN result = Fields
  /\ pc \in {"coerced", "recoerced"} => DOMAIN fixed.rec = Fields
  /\ (pc = "recoerced" /\ fixed2.exc = "none") => DOMAIN fixed2.rec = Fields
  /\ \A t \in Texts : DOMAIN CreateFallbackResponse(t) = Fields

\* a mapping with a key outside the schema and without one of its fields
C6_Witness ==
  /\ pc = "coerced"
  /\ "notes" \in DOMAIN data.d
  /\ "deadline" \notin DOMAIN data.d

\* the urgency the schema prescribes for mapping d
ExpectedUrgency(d) ==
  IF "urgency" \in DOMAIN d /\ d["urgency"].t = "str"
       /\ Lower(Strip(d["urgency"].s)) \in UrgencyWords
    THEN VStr(Lower(Strip(d["urgency"].s)))
    ELSE VStr(W_low)

\* C7: urgency is always low, medium or high: an input urgency that is one of
\* them after trimming and lower-casing is kept in lower case, anything else
\* and a missing field give low.
C7_UrgencyEnum ==
  /\ pc = "done" => result.urgency \in UrgencyValues
  /\ pc \in {"coerced", "recoerced"} =>
       /\ fixed.rec.urgency \in UrgencyValues
       /\ fixed.rec.urgency = ExpectedUrgency(data.d)
  /\ \A t \in Texts : CreateFallbackResponse(t).urgency = VStr(W_low)

\* an upper-case urgency with blanks around it comes out as high
C7_Witness ==
  /\ pc = "coerced"
  /\ "urgency" \in DOMAIN data.d
  /\ data.d["urgency"] = VStr(<<" ">> \o C_HIGH \o <<" ">>)
  /\ fixed.rec.urgency = VStr(W_high)

\* C8: each string field given as a string is absent when the string, trimmed,
\* is empty or null, none or n/a in any case, and is the trimmed string
\* otherwise; so no string field of a coerced record holds a null-like word.
C8_StringFieldsNormalized ==
  pc \in {"coerced", "recoerced"} =>
    \A f \in StringFields :
      /\ (f \in DOMAIN data.d /\ data.d[f].t = "str") =>
           LET trimmed == Strip(data.d[f].s)
           IN  IF trimmed = <<>> \/ Lower(trimmed) \in NullWords
                 THEN fixed.rec[f] = None
                 ELSE fixed.rec[f] = VStr(trimmed)
      /\ fixed.rec[f].t = "str" => Lower(fixed.rec[f].s) \notin NullWords

C10_Idempotent == pc = "recoerced" => fixed2 = fixed

IsNonBlank(l) == Strip(l) # <<>>

\* C11: both drivers hold, return and write exactly one pair per non-blank
\* line of the input: the i-th pair's input is the i-th non-blank line,
\* stripped, whatever the outcomes of parsing; blank lines give no pair.
C11_OnePairPerLine ==
  LET units == SelectSeq(lines, IsNonBlank)
  IN  /\ bpc \in {"unit", "parsing", "returned"} =>
           /\ Len(inputs) = Len(units)
           /\ \A i \in 1..Len(units) : inputs[i] = Strip(units[i])
           /\ Len(results) <= Len(units)
           /\ \A i \in 1..Len(results) : results[i].input = Strip(units[i])
      /\ bpc \in {"unit", "parsing"} => Len(results) = idx - 1
      /\ bpc = "parsing" => idx <= Len(units)
      /\ bpc = "returned" =>
           /\ Len(results) = Len(units)
           /\ output_file.written => output_file.pairs = results

\* a file of three lines, one of them blank, has given two pairs, the first
\* unit's parsing having failed, and they were written
C11_Witness ==
  /\ bpc = "returned"
  /\ output_file.written
  /\ Len(lines) = 3
  /\ Len(results) = 2
  /\ results[1].output = CreateFallbackResponse(results[1].input)
  /\ results[2].output # CreateFallbackResponse(results[2].input)

\* the records parse_text can return for request text t, whatever else is
\* in the batch
UnitOutcomes(t) ==
  {CreateFallbackResponse(t)}
    \cup {EmergencyJsonExtraction(CleanJsonResponse(Strip(r)), t) : r \in BatchOutputs}
    \cup {v.rec : v \in {x \in {ValidateAndFix(JsonLoads(CleanJsonResponse(Strip(r))).val) :
                                  r \in BatchOutputs} : x.exc = "none"}}

\* C12: in process_batch a unit whose parsing fails gets the fallback record
\* built from its own text; the record appended for a unit is one that
\* parse_text gives for that unit's text alone, appending it leaves the pairs
\* before it as they are, and the batch goes on to its last unit after a
\* failure.
C12_FailureIsLocal ==
  /\ [](bpc = "parsing" => text = inputs[idx])
  /\ [](driver = "solution" /\ bpc = "returned" /\ output_file.written =>
          Len(results) = Len(inputs))
  /\ [][results' # results =>
          /\ Len(results') = Len(results) + 1
          /\ SubSeq(results', 1, Len(results)) = results
          /\ results'[Len(results')].input = inputs[idx]
          /\ driver = "solution" =>
               results'[Len(results')].output \in UnitOutcomes(inputs[idx])
          /\ (driver = "solution" /\ ~succeeded /\ (lastFail # "JSONDecodeError" \/ noObject)) =>
               results'[Len(results')].output = CreateFallbackResponse(inputs[idx])
          /\ (driver = "solution" /\ succeeded) =>
               results'[Len(results')].output = ValidateAndFix(JsonLoads(content).val).rec]_vars

\* process_batch returned three pairs: the second unit failed and has the
\* fallback of its own text, the units before and after it have the record of
\* the object their model call returned
C12_Witness ==
  /\ driver = "solution"
  /\ bpc = "returned"
  /\ Len(results) = 3
  /\ results[2].output = CreateFallbackResponse(inputs[2])
  /\ results[1].output = ValidateAndFix(JsonLoads(<<"{", "mName", "}">>).val).rec
  /\ results[3].output = results[1].output
  /\ inputs[2] # inputs[1]

\* C13: in the list of pairs of either batch driver the output of every pair
\* is a record of the schema, coerced or fallback, also for a unit whose model
\* call or JSON decoding failed.
C13_EveryOutputIsRecord ==
  \A i \in 1..Len(results) : DOMAIN results[i].output = Fields

\* C14: a batch of k units causes one model call for the whole batch, with
\* all its units in one prompt, not a call per unit: when the driver is done
\* the calls made are those of one request, one attempt in app.py and at most
\* the retry limit in process_batch, however many units the batch has.
C14_OneCallPerBatch ==
  (bpc = "returned" /\ Len(inputs) >= 1) =>
    /\ total_calls >= 1
    /\ total_calls <= (IF driver = "solution" THEN DefaultRetries ELSE 1)

\* c starts with one complete JSON array, with or without text after it
TopLevelArray(c) ==
  /\ PrefixDecode(c).ok
  /\ PrefixDecode(c).val.kind # "dict"
  /\ PrefixDecode(c).val.v.t = "list"

\* C15: an attempt of parse_text whose output has an array as its top-level
\* JSON value, with or without text after the array, fails, and no record
\* parse_text returns on it comes from the contents of the array: if that
\* attempt is the last one, the fallback record is returned.
C15_ArrayNeverCoerced ==
  (returned /\ TopLevelArray(content)) =>
    /\ lastFail \in ExceptionClasses
    /\ pc = "done" => result = CreateFallbackResponse(text)

\* the language tags a fence may carry: none, json, JSON
FenceTags == {<<>>, <<"json">>, <<"JSON">>}

\* the text between the opening fence with tag and the closing fence of raw
FenceBody(raw, tag) == SubSeq(raw, Len(tag) + 2, Len(raw) - 1)

\* raw is a JSON object between an opening fence with tag and a closing fence
FencedWith(raw, tag) ==
  /\ Len(raw) >= Len(tag) + 2
  /\ SubSeq(raw, 1, Len(tag) + 1) = <<"fence">> \o tag
  /\ raw[Len(raw)] = "fence"
  /\ JsonLoads(FenceBody(raw, tag)).exc = "none"
  /\ JsonLoads(FenceBody(raw, tag)).val.kind = "dict"

\* C16: an attempt whose output is a JSON object in a markdown fence, the
\* opening fence bare or tagged json in either case, decodes the object on
\* that attempt: parse_text returns then, without a retry, the record that
\* the object alone gives.
C16_FenceStripped ==
  \A tag \in FenceTags :
    (returned /\ FencedWith(raw_out, tag)) =>
      LET v == ValidateAndFix(JsonLoads(FenceBody(raw_out, tag)).val)
      IN  v.exc = "none" =>
            /\ lastFail = "ok"
            /\ pc = "done"
            /\ result = v.rec

\* C17: the record of validate_and_fix, and the fallback record, have exactly
\* six keys.
C17_SixKeys ==
  /\ pc \in {"coerced", "recoerced"} => Cardinality(DOMAIN fixed.rec) = 6
  /\ (pc = "done" /\ noObject) => Cardinality(DOMAIN result) = 6

\* C17 as amended: the record of validate_and_fix, and the fallback record
\* that parse_text returns when no attempt gave a JSON object, have exactly
\* seven keys, whatever the number of keys of the input.
C17_SevenKeys ==
  /\ pc \in {"coerced", "recoerced"} => Cardinality(DOMAIN fixed.rec) = 7
  /\ (pc = "done" /\ noObject) =>
       /\ result = CreateFallbackResponse(text)
       /\ Cardinality(DOMAIN result) = 7

\* a mapping of eight keys is coerced to a record of seven
C17_Witness ==
  /\ pc = "coerced"
  /\ Cardinality(DOMAIN data.d) = 8
  /\ Cardinality(DOMAIN fixed.rec) = 7

====
